---- MODULE Spec2Model ----
(***************************************************************************)
(* Model of the TuteDude backend: order tracking (order_tracking.py, its   *)
(* verbatim copy in main.py) and chat (chat.py).                           *)
(*                                                                         *)
(* The datastore (Supabase) is modelled as tables held in variables; each  *)
(* single call to it (select, update, insert) is atomic, and handlers are  *)
(* interleaved between their calls.  The datastore itself is taken to      *)
(* execute every call it is given: the branches on insert_resp.error and   *)
(* update_resp.error (reply 500, nothing stored) are not taken.            *)
(***************************************************************************)
EXTENDS Integers, Sequences, FiniteSets, Bags, TLC

VARIABLES
    orders,       \* table orders: id -> row
    order_items,  \* table order_items: sequence of rows
    inflight,     \* update_order_status handlers between their select and their update
    clock,        \* the wall clock read by datetime.utcnow()
    response,     \* the last reply sent to a client, with the request it answers
    profiles,     \* table profiles: id -> row
    messages      \* table messages: sequence of rows in insertion order

vars == <<orders, order_items, inflight, clock, response, profiles, messages>>

----------------------------------------------------------------------------
(* Bounds *)

MaxClock == 4      \* update requests that get past validation
MaxInFlight == 2   \* handlers suspended between select and update at one time
MaxOrders == 2     \* rows of the orders table listed by get_orders
MaxItems == 2      \* rows of the order_items table
MaxSent == 2       \* messages sent when the profiles vary
MaxMsgs == 2       \* rows of the messages table listed by get_messages
MaxParts == 3      \* user ids joined in a conversation_id

----------------------------------------------------------------------------
(* order_tracking.py *)

ORDER_STATUSES == <<"Placed", "Accepted", "Out for Delivery", "Delivered">>

StatusSet == {ORDER_STATUSES[i] : i \in DOMAIN ORDER_STATUSES}

\* list.index(x) of Python, 0-based; only used on members
Index(x) == (CHOOSE i \in DOMAIN ORDER_STATUSES : ORDER_STATUSES[i] = x) - 1

\* JSON values of the jsonb column status_timestamps
JsonNull == [kind |-> "null"]
JsonObject(f) == [kind |-> "object", fields |-> f]
EmptyDict == [k \in {} |-> 0]

\* order.get('status_timestamps') or {}
OrEmpty(j) == IF j.kind = "null" \/ j.fields = EmptyDict THEN EmptyDict ELSE j.fields

\* A dict assignment that rebuilds the dict from the new entry alone
DictSetFresh(d, k, v) == [x \in {k} |-> v]

\* d[k] = v on a Python dict
DictSet(d, k, v) == [x \in DOMAIN d \cup {k} |-> IF x = k THEN v ELSE d[x]]

\* Callers as the verified token presents them: subject id and role claim
Callers == {[sub |-> "s1", role |-> "seller"], [sub |-> "s2", role |-> "seller"],
            [sub |-> "b1", role |-> "buyer"], [sub |-> "s1", role |-> "admin"]}
OrderIds == {1}
RequestedOrderIds == OrderIds \cup {2}
RequestedStatuses == StatusSet \cup {"Cancelled"}

NoResponse == [op |-> "none"]
NotRead == [kind |-> "not read"]
NoData == [kind |-> "no data"]

\* orders row as created by the schema defaults: status 'Placed', status_timestamps '{}' (or null)
NewOrder(buyer, seller, ts) ==
    [buyer_id |-> buyer, seller_id |-> seller, status |-> "Placed",
     status_timestamps |-> ts, writes |-> 0]

\* supabase.table('orders').select('*').eq('id', order_id).single().execute().data
SelectOrder(order_id) == IF order_id \in DOMAIN orders THEN orders[order_id] ELSE NoData

UpdateReply(user, order_id, new_status, code, detail, read) ==
    [op |-> "update_status", user |-> user, order_id |-> order_id,
     new_status |-> new_status, code |-> code, detail |-> detail, read |-> read]

\* The role check of update_order_status
IsSeller(user) == user.role = "seller"

\* An ownership check that lets every seller through
OwnsOrderAnySeller(order, user) == TRUE

\* The ownership check of update_order_status
OwnsOrder(order, user) == order.seller_id = user.sub

\* The membership check of update_order_status
ValidStatus(new_status) == new_status \in StatusSet

\* A transition check that accepts any forward move
LegalTransitionForward(current_status, new_status) ==
    Index(new_status) > Index(current_status)

\* The transition check of update_order_status
LegalTransition(current_status, new_status) ==
    Index(new_status) = Index(current_status) + 1

\* The fields update_order_status sends to the store
UpdatedFields(new_status, status_timestamps) ==
    [status |-> new_status, status_timestamps |-> JsonObject(status_timestamps)]

\* Handlers past validation, as a set
InFlight == BagToSet(inflight)

\* Number of handlers past validation whose timestamp is not taken yet
Unstamped == BagCardinality([r \in {x \in InFlight : x.pc = "stamp"} |-> inflight[r]])

Reject(reply) ==
    /\ response' = reply
    /\ UNCHANGED <<orders, order_items, inflight, clock, profiles, messages>>

\* update_order_status, from the request to the end of validation
UpdateBegin(user, order_id, new_status) ==
    IF ~IsSeller(user)
    THEN Reject(UpdateReply(user, order_id, new_status, 403,
                            "Only sellers can update order status", NotRead))
    ELSE LET order == SelectOrder(order_id) IN
         IF order = NoData
         THEN Reject(UpdateReply(user, order_id, new_status, 404, "Order not found", order))
         ELSE IF ~OwnsOrder(order, user)
         THEN Reject(UpdateReply(user, order_id, new_status, 403,
                                 "You can only update your own orders", order))
         ELSE IF ~ValidStatus(new_status)
         THEN Reject(UpdateReply(user, order_id, new_status, 400, "Invalid status", order))
         ELSE IF ~LegalTransition(order.status, new_status)
         THEN Reject(UpdateReply(user, order_id, new_status, 400,
                                 "Invalid status transition", order))
         ELSE /\ BagCardinality(inflight) < MaxInFlight
              /\ clock + Unstamped < MaxClock
              /\ inflight' = inflight (+) SetToBag({
                     [pc |-> "stamp", user |-> user, order_id |-> order_id,
                      new_status |-> new_status, read |-> order,
                      status_timestamps |-> OrEmpty(order.status_timestamps)]})
              /\ UNCHANGED <<orders, order_items, clock, response, profiles, messages>>

\* status_timestamps[new_status] = datetime.utcnow().isoformat()
UpdateStamp(r) ==
    /\ r.pc = "stamp"
    /\ inflight' = (inflight (-) SetToBag({r})) (+) SetToBag({
           [r EXCEPT !.pc = "write",
                     !.status_timestamps = DictSet(@, r.new_status, clock)]})
    /\ clock' = clock + 1
    /\ UNCHANGED <<orders, order_items, response, profiles, messages>>

\* An update guarded by the status read (compare-and-swap), which this code does not do
UpdateWriteGuarded(r) ==
    /\ r.pc = "write"
    /\ IF orders[r.order_id].status = r.read.status
       THEN LET f == UpdatedFields(r.new_status, r.status_timestamps)
            IN /\ orders' = [orders EXCEPT ![r.order_id] =
                                [@ EXCEPT !.status = f.status,
                                          !.status_timestamps = f.status_timestamps,
                                          !.writes = @ + 1]]
               /\ response' = UpdateReply(r.user, r.order_id, r.new_status, 200,
                                          "Order status updated", r.read)
       ELSE /\ orders' = orders
            /\ response' = UpdateReply(r.user, r.order_id, r.new_status, 400,
                                       "Invalid status transition", r.read)
    /\ inflight' = inflight (-) SetToBag({r})
    /\ UNCHANGED <<order_items, clock, profiles, messages>>

\* supabase.table('orders').update({...}).eq('id', order_id).execute(), and the reply
UpdateWrite(r) ==
    /\ r.pc = "write"
    /\ LET f == UpdatedFields(r.new_status, r.status_timestamps)
       IN orders' = [orders EXCEPT ![r.order_id] =
                        [@ EXCEPT !.status = f.status,
                                  !.status_timestamps = f.status_timestamps,
                                  !.writes = @ + 1]]
    /\ response' = UpdateReply(r.user, r.order_id, r.new_status, 200,
                               "Order status updated", r.read)
    /\ inflight' = inflight (-) SetToBag({r})
    /\ UNCHANGED <<order_items, clock, profiles, messages>>

InitOrders ==
    /\ orders \in {[o \in OrderIds |-> NewOrder("b1", "s1", ts)] :
                      ts \in {JsonNull, JsonObject(EmptyDict)}}
    /\ inflight = EmptyBag
    /\ clock = 0
    /\ response = NoResponse

Init ==
    /\ InitOrders
    /\ order_items = <<>>
    /\ profiles = [u \in {} |-> 0]
    /\ messages = <<>>

Next ==
    \/ \E user \in Callers, order_id \in RequestedOrderIds, new_status \in RequestedStatuses :
          UpdateBegin(user, order_id, new_status)
    \/ \E r \in InFlight : UpdateStamp(r)
    \/ \E r \in InFlight : UpdateWrite(r)

Spec == Init /\ [][Next]_vars

----------------------------------------------------------------------------
(* order_tracking.py: get_orders *)

ListUsers == {"u1", "u2"}
ListCallers == [sub : ListUsers, role : {"buyer", "seller", "admin"}]
RequestedUsers == ListUsers \cup {"u3"}

\* The tables get_orders may find: every order has a buyer and a seller, every item an order
OrderTables ==
    {[o \in 1 .. MaxOrders |-> NewOrder(p[o].buyer, p[o].seller, JsonObject(EmptyDict))] :
        p \in [1 .. MaxOrders -> [buyer : ListUsers, seller : ListUsers]]}
ItemTables ==
    UNION {{[i \in 1 .. n |-> [id |-> i, order_id |-> f[i], item_name |-> "item", quantity |-> 1]] :
               f \in [1 .. n -> 1 .. MaxOrders]} : n \in 0 .. MaxItems}

\* The rows of the orders table with the given ids, by ascending id, each with its id
RECURSIVE OrderRows(_)
OrderRows(ids) ==
    IF ids = {} THEN <<>>
    ELSE LET m == CHOOSE x \in ids : \A y \in ids : x <= y
             row == [id |-> m, buyer_id |-> orders[m].buyer_id,
                     seller_id |-> orders[m].seller_id, status |-> orders[m].status,
                     status_timestamps |-> orders[m].status_timestamps]
         IN <<row>> \o OrderRows(ids \ {m})

\* supabase.table('orders').select('*').eq(column, user_id).execute().data
SelectOrdersBy(column, user_id) ==
    OrderRows({o \in DOMAIN orders :
                  IF column = "buyer_id" THEN orders[o].buyer_id = user_id
                                         ELSE orders[o].seller_id = user_id})

\* supabase.table('order_items').select('*').in_('order_id', order_ids).execute().data
SelectItemsIn(order_ids) ==
    LET In(item) == item.order_id \in order_ids IN SelectSeq(order_items, In)

\* for item in items: items_by_order.setdefault(item['order_id'], []).append(item)
RECURSIVE GroupItems(_, _)
GroupItems(items, n) ==
    IF n = 0 THEN EmptyDict
    ELSE LET g == GroupItems(items, n - 1)
             item == items[n]
             sofar == IF item.order_id \in DOMAIN g THEN g[item.order_id] ELSE <<>>
         IN DictSet(g, item.order_id, Append(sofar, item))

\* A lookup that takes the first group whatever the order
DictGetFirst(items_by_order, id) ==
    IF DOMAIN items_by_order = {} THEN <<>>
    ELSE items_by_order[CHOOSE k \in DOMAIN items_by_order : \A j \in DOMAIN items_by_order : k <= j]

\* items_by_order.get(o['id'], [])
DictGet(items_by_order, id) ==
    IF id \in DOMAIN items_by_order THEN items_by_order[id] ELSE <<>>

\* The first access check of get_orders
MayList(user, user_id) == ~(user.sub # user_id /\ user.role # "seller")

ListReply(user, user_id, code, detail, body) ==
    [op |-> "list_orders", user |-> user, user_id |-> user_id, code |-> code,
     detail |-> detail, body |-> body]

Reply(reply) ==
    /\ response' = reply
    /\ UNCHANGED <<orders, order_items, inflight, clock, profiles, messages>>

get_orders(user, user_id) ==
    IF ~MayList(user, user_id)
    THEN Reply(ListReply(user, user_id, 403, "Forbidden", <<>>))
    ELSE IF user.role \notin {"buyer", "seller"}
    THEN Reply(ListReply(user, user_id, 403, "Invalid role", <<>>))
    ELSE LET found == SelectOrdersBy(IF user.role = "buyer" THEN "buyer_id" ELSE "seller_id",
                                     user_id)
         IN IF found = <<>>
            THEN Reply(ListReply(user, user_id, 200, "", <<>>))
            ELSE LET order_ids == {found[i].id : i \in DOMAIN found}
                     items == SelectItemsIn(order_ids)
                     items_by_order == GroupItems(items, Len(items))
                 IN Reply(ListReply(user, user_id, 200, "",
                        [i \in DOMAIN found |->
                            [id |-> found[i].id, buyer_id |-> found[i].buyer_id,
                             seller_id |-> found[i].seller_id, status |-> found[i].status,
                             status_timestamps |-> found[i].status_timestamps,
                             items |-> DictGet(items_by_order, found[i].id)]]))

InitList ==
    /\ orders \in OrderTables
    /\ order_items \in ItemTables
    /\ inflight = EmptyBag
    /\ clock = 0
    /\ response = NoResponse
    /\ profiles = [u \in {} |-> 0]
    /\ messages = <<>>

NextList == \E user \in ListCallers, user_id \in RequestedUsers : get_orders(user, user_id)

SpecList == InitList /\ [][NextList]_vars

----------------------------------------------------------------------------
(* chat.py *)

\* Strings of chat.py are sequences of characters
ChatUsers == {<<"a">>, <<"b">>, <<"c">>}
Texts == {<<"h", "i">>}
Languages == {"en", "hi"}
NoRow == [kind |-> "no row"]

\* A profiles row as select('preferred_language') returns it, with or without the field
ProfileRows == {NoRow, EmptyDict} \cup {[preferred_language |-> l] : l \in Languages}

\* Outcomes of the HTTP call of translate_text
GatewayOutcomes == {"ok", "http error", "exception"}

\* supabase.table('profiles').select('preferred_language').eq('id', id).single().execute().data
SelectProfile(id) ==
    IF id \in DOMAIN profiles /\ profiles[id] # NoRow THEN profiles[id] ELSE NoData

\* profile.get('preferred_language', 'en') if profile else 'en'
PreferredLanguage(profile) ==
    IF profile # NoData /\ profile # EmptyDict
    THEN IF "preferred_language" \in DOMAIN profile THEN profile.preferred_language ELSE "en"
    ELSE "en"

\* A test that always translates
NeedsTranslationAlways(sender_lang, receiver_lang) == TRUE

\* sender_lang != receiver_lang
NeedsTranslation(sender_lang, receiver_lang) == sender_lang # receiver_lang

\* translate_text when the HTTP call returns: the translated text on 200, None otherwise
translate_text(text, target_lang, source_lang, outcome) ==
    IF outcome = "ok"
    THEN [kind |-> "text", lang |-> target_lang, from |-> source_lang, of |-> text]
    ELSE JsonNull

SendReply(user, receiver_id, message, code, detail, gateway) ==
    [op |-> "send", user |-> user, receiver_id |-> receiver_id, message |-> message,
     code |-> code, detail |-> detail, gateway |-> gateway]

\* send_message; outcome is what the translation call does if it is made, tick whether the
\* store's clock moves on after the insert
send_message(user, receiver_id, message, outcome, tick) ==
    LET sender_id == user.sub
        sender_lang == PreferredLanguage(SelectProfile(sender_id))
        receiver_lang == PreferredLanguage(SelectProfile(receiver_id))
        called == NeedsTranslation(sender_lang, receiver_lang)
        gateway == IF called THEN outcome ELSE "not called"
    IN /\ Len(messages) < MaxMsgs
       /\ IF called /\ outcome = "exception"
          THEN /\ response' = SendReply(user, receiver_id, message, 500,
                                        "Internal Server Error", gateway)
               /\ UNCHANGED <<orders, order_items, inflight, clock, profiles, messages>>
          ELSE /\ messages' = Append(messages,
                      [id |-> Len(messages) + 1, sender_id |-> sender_id,
                       receiver_id |-> receiver_id, message |-> message,
                       translated_message |->
                           IF called
                           THEN translate_text(message, receiver_lang, sender_lang, outcome)
                           ELSE JsonNull,
                       timestamp |-> clock])
               /\ clock' = clock + tick
               /\ response' = SendReply(user, receiver_id, message, 200, "Message sent", gateway)
               /\ UNCHANGED <<orders, order_items, inflight, profiles>>

InitChat ==
    /\ orders = [o \in {} |-> 0]
    /\ order_items = <<>>
    /\ inflight = EmptyBag
    /\ clock = 0
    /\ response = NoResponse
    /\ messages = <<>>

Senders == {[sub |-> <<"a">>, role |-> "buyer"], [sub |-> <<"b">>, role |-> "seller"]}

InitSend ==
    /\ InitChat
    /\ profiles \in [{<<"a">>, <<"b">>} -> ProfileRows]

NextSend ==
    \E user \in Senders, receiver_id \in ChatUsers, message \in Texts,
       outcome \in GatewayOutcomes :
          /\ Len(messages) < MaxSent
          /\ send_message(user, receiver_id, message, outcome, 1)

SpecSend == InitSend /\ [][NextSend]_vars

----------------------------------------------------------------------------
(* chat.py: get_messages *)

LimitMin == 1
LimitMax == 100
OffsetMin == 0
Separator == "_"

\* '_'.join(parts)
RECURSIVE Join(_)
Join(parts) ==
    IF Len(parts) = 1 THEN parts[1] ELSE parts[1] \o <<Separator>> \o Join(Tail(parts))

\* The conversation ids requested: one to MaxParts user ids joined by the separator
ConversationIds ==
    {Join(parts) : parts \in UNION {[1 .. n -> {<<"a">>, <<"b">>}] : n \in 1 .. MaxParts}}
Limits == {0, 1, 2, 101}
Offsets == {0, 1}

\* str.split('_')
RECURSIVE Split(_)
Split(s) ==
    IF \A i \in DOMAIN s : s[i] # Separator THEN <<s>>
    ELSE LET i == CHOOSE x \in DOMAIN s :
                     s[x] = Separator /\ \A y \in DOMAIN s : s[y] = Separator => x <= y
         IN <<SubSeq(s, 1, i - 1)>> \o Split(SubSeq(s, i + 1, Len(s)))

\* The or_(and(...),and(...)) filter of get_messages
InConversation(m, user_ids) ==
    \/ m.sender_id = user_ids[1] /\ m.receiver_id = user_ids[2]
    \/ m.sender_id = user_ids[2] /\ m.receiver_id = user_ids[1]

\* .order('timestamp', desc=False): every arrangement of the rows by ascending timestamp
OrderedByTimestamp(rows) ==
    {q \in [1 .. Cardinality(rows) -> rows] :
        /\ \A i, j \in DOMAIN q : i # j => q[i] # q[j]
        /\ \A i, j \in DOMAIN q : i < j => q[i].timestamp <= q[j].timestamp}

\* .range(first, last): rows first..last of the result, counted from 0, both included
Range(q, first, last) ==
    LET hi == IF last + 1 < Len(q) THEN last + 1 ELSE Len(q)
    IN IF first + 1 > hi THEN <<>> ELSE SubSeq(q, first + 1, hi)

MessagesReply(user, conversation_id, limit, offset, code, detail, body) ==
    [op |-> "list_messages", user |-> user, conversation_id |-> conversation_id,
     limit |-> limit, offset |-> offset, code |-> code, detail |-> detail, body |-> body]

get_messages(user, conversation_id, limit, offset) ==
    IF limit < LimitMin \/ limit > LimitMax \/ offset < OffsetMin
    THEN Reply(MessagesReply(user, conversation_id, limit, offset, 422,
                             "Unprocessable Entity", <<>>))
    ELSE LET user_ids == Split(conversation_id) IN
         IF Len(user_ids) # 2
         THEN Reply(MessagesReply(user, conversation_id, limit, offset, 400,
                                  "Invalid conversation_id", <<>>))
         ELSE IF \A i \in DOMAIN user_ids : user_ids[i] # user.sub
         THEN Reply(MessagesReply(user, conversation_id, limit, offset, 403, "Forbidden", <<>>))
         ELSE \E q \in OrderedByTimestamp({messages[i] : i \in
                          {j \in DOMAIN messages : InConversation(messages[j], user_ids)}}) :
                 Reply(MessagesReply(user, conversation_id, limit, offset, 200, "",
                                     Range(q, offset, offset + limit - 1)))

Readers == {[sub |-> <<"a">>, role |-> "buyer"], [sub |-> <<"c">>, role |-> "buyer"]}

InitMessages ==
    /\ InitChat
    /\ profiles = [u \in {<<"a">>} |-> [preferred_language |-> "hi"]]

NextMessages ==
    \/ \E user \in Senders, receiver_id \in {<<"a">>, <<"b">>}, message \in Texts,
          tick \in {0, 1} :
             /\ user.sub = <<"b">> => receiver_id = <<"a">>
             /\ send_message(user, receiver_id, message, "ok", tick)
    \/ \E user \in Readers, conversation_id \in ConversationIds, limit \in Limits,
          offset \in Offsets : get_messages(user, conversation_id, limit, offset)

SpecMessages == InitMessages /\ [][NextMessages]_vars

----------------------------------------------------------------------------
(* Properties of update_order_status *)

\* The single-step forward transitions
SingleStep == {<<"Placed", "Accepted">>, <<"Accepted", "Out for Delivery">>,
               <<"Out for Delivery", "Delivered">>}

\* Keys of a status_timestamps column value
Keys(j) == IF j.kind = "null" THEN {} ELSE DOMAIN j.fields

\* The step is handler r's update call
WriteOf(r) == r.pc = "write" /\ inflight' = inflight (-) SetToBag({r})

\* A reply to update_status whose caller is the seller of the order it read
ByOwnSeller(p) ==
    /\ p.op = "update_status"
    /\ p.user.role = "seller"
    /\ p.read \notin {NotRead, NoData}
    /\ p.read.seller_id = p.user.sub

\* C1: an update by the order's own seller for a single-step forward transition is never
\* rejected, and its write leaves status = new_status, status_timestamps = the keys the
\* handler read plus exactly the new key, prior keys with their prior values, and replies
\* 200 with order_id and new_status.
C1_ForwardUpdateSucceeds ==
    [][/\ \A r \in InFlight : WriteOf(r) =>
             LET before == r.read
                 after == orders'[r.order_id]
             IN /\ after.status = r.new_status
                /\ r.new_status \notin Keys(before.status_timestamps)
                /\ Keys(after.status_timestamps) =
                       Keys(before.status_timestamps) \cup {r.new_status}
                /\ \A k \in Keys(before.status_timestamps) :
                       after.status_timestamps.fields[k] = before.status_timestamps.fields[k]
                /\ response'.op = "update_status" /\ response'.code = 200
                /\ response'.order_id = r.order_id /\ response'.new_status = r.new_status
                /\ <<before.status, r.new_status>> \in SingleStep
       /\ (ByOwnSeller(response') /\ <<response'.read.status, response'.new_status>> \in SingleStep)
             => response'.code = 200
      ]_vars

C1_Witness ==
    /\ response.op = "update_status" /\ response.code = 200
    /\ response.new_status = "Delivered"
    /\ orders[1].status = "Delivered"
    /\ Keys(orders[1].status_timestamps) = {"Accepted", "Out for Delivery", "Delivered"}
    /\ orders[1].writes = 3

\* C2: an update by the order's seller whose (current, new) pair is not a single step
\* forward, or whose new_status is outside the list, is answered 400 and the step that
\* answers leaves the orders table as it was.
C2_IllegalTransitionRejected ==
    [][(ByOwnSeller(response') /\ <<response'.read.status, response'.new_status>> \notin SingleStep)
          => /\ response'.code = 400
             /\ response' # response => orders' = orders
      ]_vars

C2_Witness ==
    /\ ByOwnSeller(response)
    /\ response.read.status = "Delivered"
    /\ response.new_status \in StatusSet
    /\ response.code = 400
    /\ orders[1] = response.read

\* C3: the orders table changes only by the update call of a handler whose caller has role
\* seller and is the order's seller; a non-seller is answered 403, a seller naming a missing
\* order 404, a seller naming another seller's order 403, whatever new_status is, and the
\* answering step leaves the orders table as it was.
C3_OnlyOwnSellerChangesOrder ==
    [][/\ orders' # orders =>
             \E r \in InFlight :
                /\ WriteOf(r)
                /\ r.user.role = "seller"
                /\ r.user.sub = orders[r.order_id].seller_id
                /\ \A o \in DOMAIN orders : o # r.order_id => orders'[o] = orders[o]
       /\ response'.op = "update_status" =>
             /\ response'.user.role # "seller" => response'.code = 403
             /\ (response'.user.role = "seller" /\ response'.order_id \notin DOMAIN orders)
                   => response'.code = 404
             /\ (/\ response'.user.role = "seller"
                 /\ response'.order_id \in DOMAIN orders
                 /\ orders[response'.order_id].seller_id # response'.user.sub)
                   => response'.code = 403
             /\ (response' # response /\ response'.code \in {403, 404}) => orders' = orders
      ]_vars

C3_Witness ==
    /\ response.op = "update_status"
    /\ response.user = [sub |-> "s2", role |-> "seller"]
    /\ response.order_id = 1
    /\ response.read.status = "Accepted"
    /\ response.new_status = "Out for Delivery"
    /\ response.code = 403

\* C4 (as claimed): under any interleaving the status is one of the four values, the key
\* set of status_timestamps never shrinks from one state to the next, and no key is
\* written more than once.
C4_Claim ==
    [][\A o \in DOMAIN orders :
          /\ orders'[o].status \in StatusSet
          /\ Keys(orders[o].status_timestamps) \subseteq Keys(orders'[o].status_timestamps)
          /\ \A k \in Keys(orders[o].status_timestamps) :
                orders'[o].status_timestamps.fields[k] = orders[o].status_timestamps.fields[k]
      ]_vars

\* C5 (as claimed): under any interleaving the index of the stored status never decreases,
\* and once Delivered the order stays Delivered, every further attempt being answered 400.
C5_Claim ==
    [][\A o \in DOMAIN orders :
          /\ Index(orders'[o].status) >= Index(orders[o].status)
          /\ orders[o].status = "Delivered" => orders'[o].status = "Delivered"
          /\ (/\ ByOwnSeller(response') /\ response' # response
              /\ response'.read.status = "Delivered") => response'.code = 400
      ]_vars

\* C10: when a handler's update call comes after another handler, which read the same
\* status before either wrote, has written the same target status, the call still goes
\* through: the stored status is the target and the target's timestamp is this second
\* writer's, the first writer's being overwritten.
C10_SecondWriterOverwrites ==
    [][\A r \in InFlight :
          (/\ WriteOf(r)
           /\ orders[r.order_id].writes = r.read.writes + 1
           /\ orders[r.order_id].status = r.new_status)
          => /\ orders'[r.order_id].status = r.new_status
             /\ orders'[r.order_id].writes = orders[r.order_id].writes + 1
             /\ orders'[r.order_id].status_timestamps.fields[r.new_status] =
                   r.status_timestamps[r.new_status]
             /\ orders'[r.order_id].status_timestamps.fields[r.new_status] #
                   orders[r.order_id].status_timestamps.fields[r.new_status]
             /\ response'.code = 200
      ]_vars

C10_Witness ==
    /\ orders[1].status = "Accepted"
    /\ orders[1].writes = 2
    /\ response.op = "update_status" /\ response.code = 200
    /\ response.read.status = "Placed"
    /\ response.read.writes = 0

----------------------------------------------------------------------------
(* Properties of get_orders *)

----------------------------------------------------------------------------
(* Properties of chat.py *)

\* The preferred language of a user: "en" when the profile or the field is missing
LanguageOf(id) ==
    IF id \notin DOMAIN profiles THEN "en"
    ELSE IF profiles[id] \in {NoRow, EmptyDict} THEN "en"
    ELSE profiles[id].preferred_language

\* The reply answers a send between users of different preferred languages
Differ(p) == LanguageOf(p.user.sub) # LanguageOf(p.receiver_id)

\* C6: a stored message has translated_message exactly when sender and receiver languages
\* differ and the translation call succeeded; when the languages are equal the gateway is
\* not called and translated_message is absent.
C6_TranslatedIffDifferAndOk ==
    /\ \A i \in DOMAIN messages :
          messages[i].translated_message # JsonNull =>
             LanguageOf(messages[i].sender_id) # LanguageOf(messages[i].receiver_id)
    /\ (response.op = "send" /\ response.code = 200) =>
          LET m == messages[Len(messages)]
          IN /\ m.sender_id = response.user.sub /\ m.receiver_id = response.receiver_id
             /\ m.message = response.message
             /\ m.translated_message # JsonNull <=> (Differ(response) /\ response.gateway = "ok")
             /\ m.translated_message # JsonNull =>
                   m.translated_message.lang = LanguageOf(m.receiver_id)
    /\ (response.op = "send" /\ ~Differ(response)) =>
          /\ response.gateway = "not called"
          /\ response.code = 200
          /\ messages[Len(messages)].translated_message = JsonNull

C6_Witness ==
    /\ response.op = "send" /\ response.code = 200
    /\ Len(messages) = 2
    /\ messages[1].translated_message # JsonNull
    /\ messages[2].translated_message = JsonNull
    /\ response.gateway = "not called"
    /\ response.user.sub \in DOMAIN profiles /\ profiles[response.user.sub] = EmptyDict
    /\ response.receiver_id \notin DOMAIN profiles

\* C7 (as claimed): whenever the languages differ and the translation call fails, by a
\* non-success response or by the call itself failing, the message is stored with the
\* original text and no translation, and send answers success.
C7_Claim ==
    (response.op = "send" /\ Differ(response) /\ response.gateway \in {"http error", "exception"})
       => /\ response.code = 200
          /\ Len(messages) > 0
          /\ messages[Len(messages)].message = response.message
          /\ messages[Len(messages)].translated_message = JsonNull

\* C8 (as claimed): get_messages accepts only a conversation_id of exactly two distinct
\* participant ids with the caller one of them (else 400 for a malformed id, 403 for a caller
\* who is neither), and an accepted request returns only the messages between the two, by
\* ascending timestamp, at positions [offset, offset + limit).
C8_Claim ==
    (response.op = "list_messages" /\ response.code # 422) =>
        LET ids == Split(response.conversation_id)
            wellformed == Len(ids) = 2 /\ ids[1] # ids[2]
        IN /\ ~wellformed => response.code = 400
           /\ (wellformed /\ response.user.sub \notin {ids[1], ids[2]}) => response.code = 403
           /\ (wellformed /\ response.user.sub \in {ids[1], ids[2]}) =>
                 /\ response.code = 200
                 /\ \E q \in OrderedByTimestamp({messages[i] : i \in
                          {j \in DOMAIN messages :
                              <<messages[j].sender_id, messages[j].receiver_id>> \in
                                 {<<ids[1], ids[2]>>, <<ids[2], ids[1]>>}}}) :
                       /\ Len(response.body) <= response.limit
                       /\ \A k \in DOMAIN response.body :
                             /\ response.offset + k \in DOMAIN q
                             /\ response.body[k] = q[response.offset + k]
                       /\ Len(response.body) < response.limit =>
                             response.offset + Len(response.body) >= Len(q)

\* get_messages without the distinctness requirement: a conversation_id of exactly two
\* ids with the caller one of them is accepted, any other is answered 400 or 403, and an
\* accepted request returns the messages between the two ids, by ascending timestamp, at
\* positions [offset, offset + limit).
ListMessagesContract ==
    (response.op = "list_messages" /\ response.code # 422) =>
        LET ids == Split(response.conversation_id)
        IN /\ Len(ids) # 2 => response.code = 400
           /\ (Len(ids) = 2 /\ response.user.sub \notin {ids[1], ids[2]}) => response.code = 403
           /\ (Len(ids) = 2 /\ response.user.sub \in {ids[1], ids[2]}) =>
                 /\ response.code = 200
                 /\ \E q \in OrderedByTimestamp({messages[i] : i \in
                          {j \in DOMAIN messages :
                              <<messages[j].sender_id, messages[j].receiver_id>> \in
                                 {<<ids[1], ids[2]>>, <<ids[2], ids[1]>>}}}) :
                       /\ Len(response.body) <= response.limit
                       /\ \A k \in DOMAIN response.body :
                             /\ response.offset + k \in DOMAIN q
                             /\ response.body[k] = q[response.offset + k]
                       /\ Len(response.body) < response.limit =>
                             response.offset + Len(response.body) >= Len(q)

====
